---- MODULE Spec2Model ----
(***************************************************************************)
(* flatstar: a normalized intensity map of a limb-darkened stellar disk    *)
(* (draw.star), the occultation of that map by a planet                    *)
(* (draw.planet_transit), the limb-darkening laws (limb_darkening.py) and  *)
(* the StarGrid container and the radial-distance field (utils.py).        *)
(*                                                                         *)
(* Numbers.  The program computes in IEEE-754 doubles.  A double is held   *)
(* here as a record [k, v]: k = "fin" with v the value in units of         *)
(* 1/Scale (fixed point, rounded toward zero), k = "inf" with v the sign,  *)
(* or k = "nan".  The arithmetic below follows IEEE-754 on the special     *)
(* values (0 * inf = nan, x / 0 = inf, 0 / 0 = nan, nan absorbing).        *)
(* A normalized intensity (cell / norm) is held exactly, as the ratio      *)
(* [k, n, d] of the two fixed-point numbers.                               *)
(***************************************************************************)
EXTENDS Integers, Sequences, FiniteSets, TLC

\* Fixed-point unit of the finite doubles of the model.
Scale == 10 ^ 3

----------------------------------------------------------------------------
(* IEEE-754 doubles *)

Fin(v) == [k |-> "fin", v |-> v]
Inf(s) == [k |-> "inf", v |-> s]
NaN == [k |-> "nan", v |-> 0]

IsFin(a) == a.k = "fin"
IsNaN(a) == a.k = "nan"
IsInf(a) == a.k = "inf"

Abs(n) == IF n < 0 THEN -n ELSE n
Sign(n) == IF n < 0 THEN -1 ELSE IF n > 0 THEN 1 ELSE 0
\* C's and Python's int(): truncation toward zero
Trunc(n, d) == Sign(n) * Sign(d) * (Abs(n) \div Abs(d))
Floor(n, d) == IF d > 0 THEN n \div d ELSE (-n) \div (-d)

FNeg(a) == IF IsNaN(a) THEN NaN ELSE [k |-> a.k, v |-> -a.v]

FAdd(a, b) ==
    IF IsNaN(a) \/ IsNaN(b) THEN NaN
    ELSE IF IsInf(a) /\ IsInf(b) THEN (IF a.v = b.v THEN a ELSE NaN)
    ELSE IF IsInf(a) THEN a
    ELSE IF IsInf(b) THEN b
    ELSE Fin(a.v + b.v)

FSub(a, b) == FAdd(a, FNeg(b))

FMul(a, b) ==
    IF IsNaN(a) \/ IsNaN(b) THEN NaN
    ELSE IF IsInf(a) \/ IsInf(b)
         THEN (IF a.v = 0 \/ b.v = 0 THEN NaN ELSE Inf(Sign(a.v) * Sign(b.v)))
    ELSE Fin(Trunc(a.v * b.v, Scale))

FDiv(a, b) ==
    IF IsNaN(a) \/ IsNaN(b) THEN NaN
    ELSE IF IsInf(a) THEN (IF IsInf(b) THEN NaN
                           ELSE Inf(a.v * (IF b.v < 0 THEN -1 ELSE 1)))
    ELSE IF IsInf(b) THEN Fin(0)
    ELSE IF b.v = 0 THEN (IF a.v = 0 THEN NaN ELSE Inf(Sign(a.v)))
    ELSE Fin(Trunc(a.v * Scale, b.v))

\* a < b as IEEE compares: false whenever a nan is involved
FLess(a, b) ==
    IF IsNaN(a) \/ IsNaN(b) THEN FALSE
    ELSE IF IsInf(a) THEN a.v < 0 /\ ~(IsInf(b) /\ b.v < 0)
    ELSE IF IsInf(b) THEN b.v > 0
    ELSE a.v < b.v

\* floor of the square root of a natural number
RECURSIVE IsqrtIter(_, _, _)
IsqrtIter(n, lo, hi) ==
    IF hi - lo <= 1 THEN lo
    ELSE LET mid == (lo + hi) \div 2
         IN  IF mid <= n \div mid THEN IsqrtIter(n, mid, hi)
             ELSE IsqrtIter(n, lo, mid)
Isqrt(n) == IF n = 0 THEN 0 ELSE IsqrtIter(n, 1, n + 1)

\* x ** 0.5: nan for a negative x
FSqrt(a) ==
    IF IsNaN(a) THEN NaN
    ELSE IF IsInf(a) THEN (IF a.v > 0 THEN a ELSE NaN)
    ELSE IF a.v < 0 THEN NaN
    ELSE Fin(Isqrt(a.v * Scale))

\* e^x for a finite x >= 0, by its Taylor series in fixed point
RECURSIVE ExpSeries(_, _, _, _)
ExpSeries(x, term, i, acc) ==
    IF term = 0 THEN acc
    ELSE LET next == (term * x) \div (i * Scale)
         IN  ExpSeries(x, next, i + 1, acc + next)
ExpFx(x) == ExpSeries(x, Scale, 1, Scale)

FExp(a) ==
    IF IsNaN(a) THEN NaN
    ELSE IF IsInf(a) THEN (IF a.v > 0 THEN a ELSE Fin(0))
    ELSE IF a.v >= 0 THEN Fin(ExpFx(a.v))
    ELSE Fin(Trunc(Scale * Scale, ExpFx(-a.v)))

\* ln x for a finite x > 0: x is brought into [Scale/2, Scale] by doubling
\* or halving, then ln x = 2 atanh((x - 1) / (x + 1))
Ln2 == (693147 * Scale) \div (10 ^ 6)
RECURSIVE AtanhSeries(_, _, _, _)
AtanhSeries(y2, term, i, acc) ==
    IF term = 0 \/ i > 15 THEN acc
    ELSE LET next == Trunc(term * y2, Scale)
         IN  AtanhSeries(y2, next, i + 2, acc + Trunc(next, i + 2))
RECURSIVE LnFx(_)
LnFx(x) ==
    IF 2 * x < Scale THEN LnFx(2 * x) - Ln2
    ELSE IF x > Scale THEN LnFx(Trunc(x, 2)) + Ln2
    ELSE LET y == Trunc((x - Scale) * Scale, x + Scale)
         IN  2 * AtanhSeries(Trunc(y * y, Scale), y, 1, y)

\* numpy.log: -inf at 0, nan below
FLog(a) ==
    IF IsNaN(a) THEN NaN
    ELSE IF IsInf(a) THEN (IF a.v > 0 THEN a ELSE NaN)
    ELSE IF a.v < 0 THEN NaN
    ELSE IF a.v = 0 THEN Inf(-1)
    ELSE Fin(LnFx(a.v))

One == Fin(Scale)
Zero == Fin(0)


----------------------------------------------------------------------------
(* Python values: every value is a record with a kind k, so that None, a *)
(* string, a number and a sequence can be told apart.                    *)

None == [k |-> "None"]
Str(s) == [k |-> "str", s |-> s]
\* the number n / d (an int when d = 1)
Num(n, d) == [k |-> "num", n |-> n, d |-> d]
\* a bare float coefficient, and an array-like of coefficients
Float(v) == [k |-> "float", v |-> v]
Seq1(c) == [k |-> "seq", c |-> c]

----------------------------------------------------------------------------
(* limb_darkening.py: attenuation of a cell as a function of mu *)

\* i0 defaults to 1.0 in every law
i0 == One

linear(mu, c) ==
    LET attenuation == FSub(One, FMul(c, FSub(One, mu)))
    IN  FMul(i0, attenuation)

quadratic(mu, c) ==
    LET c1 == c[1]
        c2 == c[2]
        d  == FSub(One, mu)
        attenuation == FSub(FSub(One, FMul(c1, d)), FMul(c2, FMul(d, d)))
    IN  FMul(i0, attenuation)

square_root(mu, c) ==
    LET c1 == c[1]
        c2 == c[2]
        attenuation == FSub(FSub(One, FMul(c1, FSub(One, mu))),
                            FMul(c2, FSub(One, FSqrt(mu))))
    IN  FMul(i0, attenuation)

\* c2 * mu * np.log(mu) ** 2 is (c2 * mu) * (log(mu) ** 2)
logarithmic(mu, c) ==
    LET c1 == c[1]
        c2 == c[2]
        lg == FLog(mu)
        attenuation == FSub(FSub(One, FMul(c1, FSub(One, mu))),
                            FMul(FMul(c2, mu), FMul(lg, lg)))
    IN  FMul(i0, attenuation)

exponential(mu, c) ==
    LET c1 == c[1]
        c2 == c[2]
        attenuation == FSub(FSub(One, FMul(c1, FSub(One, mu))),
                            FDiv(c2, FSub(One, FExp(mu))))
    IN  FMul(i0, attenuation)

\* mu ** (3 / 2)
Pow15(mu) == FMul(mu, FSqrt(mu))

sing_three(mu, c) ==
    LET c1 == c[1]
        c2 == c[2]
        c3 == c[3]
        attenuation ==
            FSub(FSub(FSub(One, FMul(c1, FSub(One, mu))),
                      FMul(c2, FSub(One, Pow15(mu)))),
                 FMul(c3, FSub(One, FMul(mu, mu))))
    IN  FMul(i0, attenuation)

claret_four(mu, c) ==
    LET c1 == c[1]
        c2 == c[2]
        c3 == c[3]
        c4 == c[4]
        attenuation ==
            FSub(FSub(FSub(FSub(One, FMul(c1, FSub(One, FSqrt(mu)))),
                           FMul(c2, FSub(One, mu))),
                      FMul(c3, FSub(One, Pow15(mu)))),
                 FMul(c4, FSub(One, FMul(mu, mu))))
    IN  FMul(i0, attenuation)

\* draw.IMPLEMENTED_LD_LAW: law name -> function of limb_darkening.py
IMPLEMENTED_LD_LAW ==
    [linear |-> "linear", quadratic |-> "quadratic"] @@
    ("square-root" :> "square_root") @@
    [log |-> "logarithmic", logarithmic |-> "logarithmic",
     exp |-> "exponential", exponential |-> "exponential",
     sing |-> "sing_three", s3 |-> "sing_three",
     claret |-> "claret_four", c4 |-> "claret_four"] @@
    ("sing-three" :> "sing_three") @@ ("claret-four" :> "claret_four")

\* the call IMPLEMENTED_LD_LAW[name](mu, ld_coefficient) on one cell
ApplyLaw(fn, mu, coef) ==
    CASE fn = "linear"      -> linear(mu, Fin(coef.v))
      [] fn = "quadratic"   -> quadratic(mu, coef.c)
      [] fn = "square_root" -> square_root(mu, coef.c)
      [] fn = "logarithmic" -> logarithmic(mu, coef.c)
      [] fn = "exponential" -> exponential(mu, coef.c)
      [] fn = "sing_three"  -> sing_three(mu, coef.c)
      [] fn = "claret_four" -> claret_four(mu, coef.c)

\* number of coefficients each law unpacks (1: a bare float)
Arity(fn) ==
    CASE fn = "linear" -> 1
      [] fn \in {"quadratic", "square_root", "logarithmic", "exponential"} -> 2
      [] fn = "sing_three" -> 3
      [] fn = "claret_four" -> 4

----------------------------------------------------------------------------
(* Grids: a square n x n array is a function on Cells(n); a[<<i, j>>] is *)
(* row i, column j (numpy's a[i][j]).                                    *)

Cells(n) == (0 .. n - 1) \X (0 .. n - 1)

\* An array is computed once, when it is made: Table(f) is f, as the table of
\* its values (f @@ <<>> = f), so that reading a cell computes nothing.
Table(f) == f @@ <<>>

\* The boundary of the ellipse that PIL inscribes in a box a wide and b high,
\* in doubled coordinates about the centre of the box: the walk starts at
\* (a, b % 2) and ends at (a % 2, b), each step going to the neighbour
\* (x, y + 2), (x - 2, y + 2) or (x - 2, y) nearest to the ellipse.  The
\* result maps each row y to the largest x the walk reaches on it.
RECURSIVE QuarterTrace(_, _, _, _, _)
QuarterTrace(a, b, cx, cy, rows) ==
    LET seen == IF cy \in DOMAIN rows THEN rows ELSE (cy :> cx) @@ rows
        delta(x, y) == Abs(a * a * y * y + b * b * x * x - a * a * b * b)
        d1 == delta(cx, cy + 2)
        d2 == delta(cx - 2, cy + 2)
        d3 == delta(cx - 2, cy)
        nx == IF cx > 1 /\ (d1 > d2 \/ d1 > d3) THEN cx - 2 ELSE cx
        ny == IF cx > 1 /\ d1 <= d2 /\ d1 > d3 THEN cy
              ELSE IF cx > 1 /\ d1 > d2 /\ d2 > d3 THEN cy
              ELSE cy + 2
    IN  IF (cx = a % 2 /\ cy = b) \/ cy > b THEN seen
        ELSE QuarterTrace(a, b, nx, ny, seen)

\* draw._disk: PIL's ImageDraw.ellipse (outline and fill) on a mode "1" image
\* of n x n pixels, times value.  The corners of the bounding box are cast to
\* int; center is (x, y) = (column, row).  cx, cy and radius are fixed-point
\* numbers, value is a double.
Disk(cx, cy, radius, n, value) ==
    LET x0 == Trunc(cx - radius, Scale)
        y0 == Trunc(cy - radius, Scale)
        x1 == Trunc(cx + radius, Scale)
        y1 == Trunc(cy + radius, Scale)
        w  == x1 - x0
        h  == y1 - y0
        rows == IF w < 0 \/ h < 0 THEN <<>>
                ELSE QuarterTrace(w, h, w, h % 2, <<>>)
        Drawn(x, y) ==
            LET X == Abs(2 * (x - x0) - w)
                Y == Abs(2 * (y - y0) - h)
            IN  Y \in DOMAIN rows /\ X <= rows[Y]
    IN  Table([p \in Cells(n) |->
            FMul(Fin(IF Drawn(p[2], p[1]) THEN Scale ELSE 0), value)])

\* numpy.linspace(-c, c, n)[i]
Linspace(c, n, i) ==
    IF n = 1 THEN -c * Scale
    ELSE -c * Scale + Trunc(i * 2 * c * Scale, n - 1)

\* utils.cylindrical_r on a grid of shape (nx, ny), reference in pixels:
\* meshgrid puts coords_x along the columns and coords_y along the rows,
\* so the field has shape (ny, nx)
cylindrical_r(nx, ny, ref_x, ref_y) ==
    LET grid_center_x == nx \div 2
        grid_center_y == ny \div 2
        coords_x(j) == Linspace(grid_center_x, nx, j)
        coords_y(i) == Linspace(grid_center_y, ny, i)
    IN  Table([p \in (0 .. ny - 1) \X (0 .. nx - 1) |->
            LET map_x == Fin(coords_x(p[2]) - ref_x * Scale)
                map_y == Fin(coords_y(p[1]) - ref_y * Scale)
            IN  FSqrt(FAdd(FMul(map_x, map_x), FMul(map_y, map_y)))])

\* mu without mu[np.isnan(mu)] = 0.0: the nan of the square root of a
\* negative number stays
Mu_KeepsNaN(r, star_radius) ==
    LET q == FDiv(r, Fin(star_radius))
    IN  FSqrt(FSub(One, FMul(q, q)))

\* draw.star: mu = (1 - (r / star_radius) ** 2) ** 0.5, nan replaced by 0
Mu(r, star_radius) ==
    LET q  == FDiv(r, Fin(star_radius))
        mu == FSqrt(FSub(One, FMul(q, q)))
    IN  IF IsNaN(mu) THEN Zero ELSE mu

----------------------------------------------------------------------------
(* PIL's Image.resize of a mode "F" image, as draw.star calls it.  NEAREST *)
(* picks one source pixel; the other filters are a separable convolution   *)
(* (rows first), each output pixel a weighted sum of the source pixels in  *)
(* the filter's support, the weights normalized to sum 1.                  *)

\* fixed-point product and quotient of two finite numbers
M(a, b) == Trunc(a * b, Scale)
Q(a, b) == Trunc(a * Scale, b)

Pi == (31416 * Scale) \div (10 ^ 4)

\* sin and cos by their Taylor series, the argument brought into [-Pi, Pi]
RECURSIVE TrigSeries(_, _, _, _)
TrigSeries(x2, term, i, acc) ==
    IF term = 0 \/ i > 25 THEN acc
    ELSE LET next == -Trunc(M(term, x2), (i + 1) * (i + 2))
         IN  TrigSeries(x2, next, i + 2, acc + next)
RECURSIVE Reduce(_)
Reduce(x) ==
    IF x > Pi THEN Reduce(x - 2 * Pi)
    ELSE IF x < -Pi THEN Reduce(x + 2 * Pi)
    ELSE x
SinFx(x) == LET r == Reduce(x) IN TrigSeries(M(r, r), r, 1, r)
CosFx(x) == LET r == Reduce(x) IN TrigSeries(M(r, r), Scale, 0, Scale)

box_filter(x) == IF x > -(Scale \div 2) /\ x <= Scale \div 2 THEN Scale ELSE 0

bilinear_filter(x) ==
    LET ax == Abs(x) IN IF ax < Scale THEN Scale - ax ELSE 0

hamming_filter(x) ==
    LET ax == Abs(x)
        t  == M(ax, Pi)
    IN  IF ax = 0 THEN Scale
        ELSE IF ax >= Scale THEN 0
        ELSE M(Q(SinFx(t), t), (54 * Scale) \div 100 + M((46 * Scale) \div 100, CosFx(t)))

\* a = -0.5
bicubic_filter(x) ==
    LET ax == Abs(x)
        a  == -(Scale \div 2)
    IN  IF ax < Scale
        THEN M(M(M(a + 2 * Scale, ax) - (a + 3 * Scale), ax), ax) + Scale
        ELSE IF ax < 2 * Scale
        THEN M(M(M(M(ax - 5 * Scale, ax) + 8 * Scale, ax) - 4 * Scale, a), Scale)
        ELSE 0

sinc_filter(x) ==
    IF x = 0 THEN Scale ELSE LET t == M(x, Pi) IN Q(SinFx(t), t)

lanczos_filter(x) ==
    IF -3 * Scale <= x /\ x < 3 * Scale
    THEN M(sinc_filter(x), sinc_filter(Trunc(x, 3)))
    ELSE 0

\* draw.RESAMPLING_ALIAS: the names star() accepts
RESAMPLING_ALIAS ==
    {"nearest", "box", "bilinear", "hamming", "bicubic", "lanczos"}

\* twice the support of each filter, in source pixels
Support2(method) ==
    CASE method = "box" -> 1
      [] method \in {"bilinear", "hamming"} -> 2
      [] method = "bicubic" -> 4
      [] method = "lanczos" -> 6

Filter(method, x) ==
    CASE method = "box" -> box_filter(x)
      [] method = "bilinear" -> bilinear_filter(x)
      [] method = "hamming" -> hamming_filter(x)
      [] method = "bicubic" -> bicubic_filter(x)
      [] method = "lanczos" -> lanczos_filter(x)

\* the weights w of one output pixel, normalized to sum 1 (left as they are
\* when they sum to 0), with the first source pixel xmin they apply to
NormalizeCoeffs(xmin, w) ==
    LET Ws[x \in -1 .. (Len(w) - 1)] == IF x = -1 THEN 0 ELSE Ws[x - 1] + w[x + 1]
        ww == Ws[Len(w) - 1]
    IN  [xmin |-> xmin,
         k    |-> Table([x \in 0 .. (Len(w) - 1) |->
                      IF ww # 0 THEN Q(w[x + 1], ww) ELSE w[x + 1]])]

\* the weights of output pixel xx when m source pixels become n: the first
\* source pixel xmin, and the normalized weight of each pixel from there
Coeffs(m, n, method, xx) ==
    LET scale       == Q(m, n)
        filterscale == IF scale < Scale THEN Scale ELSE scale
        support     == Trunc(Support2(method) * filterscale, 2)
        center      == Trunc((2 * xx + 1) * m * Scale, 2 * n)
        lo          == Trunc(center - support + Scale \div 2, Scale)
        hi          == Trunc(center + support + Scale \div 2, Scale)
        xmin        == IF lo < 0 THEN 0 ELSE lo
        xmax        == IF hi > m THEN m ELSE hi
    IN  NormalizeCoeffs(xmin,
            Table([x \in 1 .. (xmax - xmin) |->
                Filter(method,
                       Q((x - 1 + xmin) * Scale - center + Scale \div 2,
                         filterscale))]))

\* ss = 0; ss += in[x + xmin] * k[x], as doubles
RECURSIVE Convolve(_, _, _, _)
Convolve(line, c, x, ss) ==
    IF x \notin DOMAIN c.k THEN ss
    ELSE Convolve(line, c, x + 1, FAdd(ss, FMul(line[x + c.xmin], Fin(c.k[x]))))

\* the vertical pass over the rows of temp (m rows, n columns)
ResampleVertical(temp, m, n, cf) ==
    Table([p \in Cells(n) |->
        Convolve([y \in 0 .. m - 1 |-> temp[<<y, p[2]>>]], cf[p[1]], 0, Zero)])

\* the horizontal pass over the m x m array a, then the vertical one
Resample(a, m, n, cf) ==
    ResampleVertical(
        Table([p \in (0 .. m - 1) \X (0 .. n - 1) |->
            Convolve([x \in 0 .. m - 1 |-> a[<<p[1], x>>]], cf[p[2]], 0, Zero)]),
        m, n, cf)

\* Image.resize of the m x m array a to n x n
Resize(a, m, n, method) ==
    IF m = n THEN a
    ELSE IF method = "nearest"
    THEN Table([p \in Cells(n) |->
             a[<<((2 * p[1] + 1) * m) \div (2 * n), ((2 * p[2] + 1) * m) \div (2 * n)>>]])
    ELSE Resample(a, m, n,
                  Table([xx \in 0 .. n - 1 |-> Coeffs(m, n, method, xx)]))

----------------------------------------------------------------------------
(* Normalized intensities: the quotient of two doubles, held exactly *)

Ratio(n, d) == [k |-> "fin", n |-> n, d |-> d]
RNaN == [k |-> "nan", n |-> 0, d |-> 1]
RInf(s) == [k |-> "inf", n |-> s, d |-> 1]

\* a / b as numpy divides (nan and inf where IEEE-754 gives them)
RDiv(a, b) ==
    IF IsNaN(a) \/ IsNaN(b) THEN RNaN
    ELSE IF IsInf(a) THEN (IF IsInf(b) THEN RNaN
                           ELSE RInf(a.v * (IF b.v < 0 THEN -1 ELSE 1)))
    ELSE IF IsInf(b) THEN Ratio(0, 1)
    ELSE IF b.v = 0 THEN (IF a.v = 0 THEN RNaN ELSE RInf(Sign(a.v)))
    ELSE Ratio(a.v * Sign(b.v), Abs(b.v))

\* the sum of the doubles a[<<i, j>>], ... , a[<<i, n - 1>>] of row i
RECURSIVE RowSum(_, _, _, _)
RowSum(a, n, i, j) ==
    IF j >= n THEN Zero ELSE FAdd(a[<<i, j>>], RowSum(a, n, i, j + 1))

\* the sum of the rows i, ... , n - 1
RECURSIVE RowsSum(_, _, _)
RowsSum(a, n, i) ==
    IF i >= n THEN Zero ELSE FAdd(RowSum(a, n, i, 0), RowsSum(a, n, i + 1))

\* numpy.sum of an n x n array of doubles
NpSum(a, n) == RowsSum(a, n, 0)

----------------------------------------------------------------------------
(* utils.StarGrid: the attributes __init__ sets.  An object is a function *)
(* from attribute names to values: reading a name outside its DOMAIN is   *)
(* Python's AttributeError, and an assignment to a new name adds it.      *)

\* StarGrid.__init__ with the two resampling factors stored in each other's
\* attribute
StarGrid_SwapsFactors(intensity_array, radius_px, limb_darkening_law, ld_coefficients, supersampling, upscaling, resample_method) ==
    [intensity               |-> intensity_array,
     radius_px               |-> radius_px,
     limb_darkening_law      |-> limb_darkening_law,
     ld_coefficients         |-> ld_coefficients,
     supersampling_factor    |-> upscaling,
     upscaling_factor        |-> supersampling,
     resample_method         |-> resample_method,
     planet_px_coordinates   |-> None,
     planet_radius_px        |-> None,
     planet_impact_parameter |-> None,
     planet_phase            |-> None]

StarGrid(intensity_array, radius_px, limb_darkening_law, ld_coefficients, supersampling, upscaling, resample_method) ==
    [intensity               |-> intensity_array,
     radius_px               |-> radius_px,
     limb_darkening_law      |-> limb_darkening_law,
     ld_coefficients         |-> ld_coefficients,
     supersampling_factor    |-> supersampling,
     upscaling_factor        |-> upscaling,
     resample_method         |-> resample_method,
     planet_px_coordinates   |-> None,
     planet_radius_px        |-> None,
     planet_impact_parameter |-> None,
     planet_phase            |-> None]

HasAttr(obj, name) == name \in DOMAIN obj
SetAttr(obj, name, value) == (name :> value) @@ obj

\* a numpy array: its shape and its cells
NdArray(n, a) == [k |-> "ndarray", shape |-> <<n, n>>, a |-> a]

----------------------------------------------------------------------------
(* draw.star *)

\* Python 3's round() of p / d (p >= 0, d > 0): to the nearest integer, a
\* tie to the even one
PyRound(p, d) ==
    LET q == p \div d
        r == p % d
    IN  IF 2 * r < d THEN q
        ELSE IF 2 * r > d THEN q + 1
        ELSE IF q % 2 = 0 THEN q ELSE q + 1

\* the effective grid size with int(supersampling * grid_size + 0.5) for
\* int(round(supersampling * grid_size)): a tie goes up, not to the even side
EffectiveGridSize_HalfUp(grid_size, supersampling, upscaling) ==
    IF supersampling # None
    THEN (2 * supersampling.n * grid_size + supersampling.d)
             \div (2 * supersampling.d)
    ELSE IF upscaling # None
    THEN Floor(grid_size * upscaling.d, upscaling.n)
    ELSE grid_size

\* the effective grid size on which star() starts
EffectiveGridSize(grid_size, supersampling, upscaling) ==
    IF supersampling # None
    THEN PyRound(supersampling.n * grid_size, supersampling.d)
    ELSE IF upscaling # None
    THEN Floor(grid_size * upscaling.d, upscaling.n)
    ELSE grid_size

\* the custom law of the callers that pass one:
\* 1 - c1 * (1 - mu ** 0.9) - c2 * (1 - mu ** (3 / 2))
custom_ld(mu, c) ==
    LET c1 == c[1]
        c2 == c[2]
        p9 == FExp(FMul(Fin((9 * Scale) \div 10), FLog(mu)))
        attenuation == FSub(FSub(One, FMul(c1, FSub(One, p9))),
                            FMul(c2, FSub(One, Pow15(mu))))
    IN  FMul(i0, attenuation)

\* what a call returns or raises
Returned(value, effective) ==
    [raised |-> "none", value |-> value, effective_grid_size |-> effective]
Raised(exc, effective) ==
    [raised |-> exc, value |-> None, effective_grid_size |-> effective]

\* the law step with the KeyError of an unknown law name swallowed: the disk
\* is left as it is, as if no law had been asked for
LawStep_SkipsUnknown(disk, mu, n, limb_darkening_law, ld_coefficient, custom_limb_darkening) ==
    IF limb_darkening_law = None
    THEN [raised |-> "none", star_array |-> disk]
    ELSE IF limb_darkening_law = Str("custom")
    THEN IF custom_limb_darkening = None
         THEN [raised |-> "TypeError", star_array |-> disk]
         ELSE [raised |-> "none",
               star_array |-> Table([p \in Cells(n) |->
                   FMul(disk[p], custom_ld(mu[p], ld_coefficient.c))])]
    ELSE IF limb_darkening_law.s \in DOMAIN IMPLEMENTED_LD_LAW
    THEN [raised |-> "none",
          star_array |-> Table([p \in Cells(n) |->
              FMul(disk[p], ApplyLaw(IMPLEMENTED_LD_LAW[limb_darkening_law.s],
                                     mu[p], ld_coefficient))])]
    ELSE [raised |-> "none", star_array |-> disk]

\* the step of star() that applies the limb-darkening law to the disk
\* (star_array *= law(mu, ld_coefficient)): the array, or the exception
LawStep(disk, mu, n, limb_darkening_law, ld_coefficient, custom_limb_darkening) ==
    IF limb_darkening_law = None
    THEN [raised |-> "none", star_array |-> disk]
    ELSE IF limb_darkening_law = Str("custom")
    THEN IF custom_limb_darkening = None
         THEN [raised |-> "TypeError", star_array |-> disk]
         ELSE [raised |-> "none",
               star_array |-> Table([p \in Cells(n) |->
                   FMul(disk[p], custom_ld(mu[p], ld_coefficient.c))])]
    ELSE IF limb_darkening_law.s \in DOMAIN IMPLEMENTED_LD_LAW
    THEN [raised |-> "none",
          star_array |-> Table([p \in Cells(n) |->
              FMul(disk[p], ApplyLaw(IMPLEMENTED_LD_LAW[limb_darkening_law.s],
                                     mu[p], ld_coefficient))])]
    ELSE [raised |-> "NotImplementedError", star_array |-> disk]

\* norm = np.sum(star_array)
Norm(star_array, n) == NpSum(star_array, n)

\* intensity_array = star_array / norm
Normalize(star_array, n) ==
    LET norm == Norm(star_array, n)
    IN  NdArray(n, Table([p \in Cells(n) |-> RDiv(star_array[p], norm)]))

\* whether star() takes the resizing path
Resizes(supersampling, upscaling) == supersampling # None \/ upscaling # None

\* the resizing step with an unknown method replaced by the default one (box)
\* where the code raises
ResizeStep_FallsBackToBox(star_array, n, grid_size, resample_method) ==
    [raised |-> "none",
     resample_method |->
         IF resample_method # None /\ resample_method.s \in RESAMPLING_ALIAS
         THEN resample_method ELSE Str("box"),
     final_star_array |->
         Resize(star_array, n, grid_size,
                IF resample_method # None /\ resample_method.s \in RESAMPLING_ALIAS
                THEN resample_method.s ELSE "box")]

\* the step of star() that resizes the n x n star_array to grid_size: the
\* resized array and the method used, or the exception
ResizeStep(star_array, n, grid_size, resample_method) ==
    IF resample_method # None /\ resample_method.s \notin RESAMPLING_ALIAS
    THEN [raised |-> "NotImplementedError",
          resample_method |-> resample_method,
          final_star_array |-> star_array]
    ELSE [raised |-> "none",
          resample_method |->
              IF resample_method # None THEN resample_method ELSE Str("box"),
          final_star_array |->
              Resize(star_array, n, grid_size,
                     IF resample_method # None THEN resample_method.s
                     ELSE "box")]

\* star() from the resizing on: resized is the outcome of ResizeStep
StarResized(a, n, resized) ==
    IF resized.raised # "none" THEN Raised(resized.raised, n)
    ELSE Returned(StarGrid(Normalize(resized.final_star_array, a.grid_size),
                           a.radius, a.limb_darkening_law, a.ld_coefficient,
                           a.supersampling, a.upscaling,
                           resized.resample_method), n)

\* star() from the law on: law is the outcome of LawStep on the n x n grid
StarLaw(a, n, law) ==
    IF law.raised # "none" THEN Raised(law.raised, n)
    ELSE IF ~Resizes(a.supersampling, a.upscaling)
    THEN Returned(StarGrid(Normalize(law.star_array, n), a.radius,
                           a.limb_darkening_law, a.ld_coefficient,
                           a.supersampling, a.upscaling,
                           a.resample_method), n)
    ELSE StarResized(a, n, ResizeStep(law.star_array, n, a.grid_size,
                                      a.resample_method))

\* mu on every cell of the n x n grid
MuField(r_array, n, star_radius) ==
    Table([p \in Cells(n) |-> Mu(r_array[p], star_radius)])

\* r_array = utils.cylindrical_r(star_array) on the n x n working grid
star_r_array(n) == cylindrical_r(n, n, 0, 0)

\* the mu that star() hands to the limb-darkening law
star_mu(a, n) == MuField(star_r_array(n), n, a.radius * n)

\* star() on the working grid of n x n pixels (n = effective_grid_size)
StarWorking(a, n) ==
    StarLaw(a, n,
            LawStep(Disk((n \div 2) * Scale, (n \div 2) * Scale, a.radius * n,
                         n, One),
                    star_mu(a, n),
                    n, a.limb_darkening_law, a.ld_coefficient,
                    a.custom_limb_darkening))

star(a) ==
    StarWorking(a, EffectiveGridSize(a.grid_size, a.supersampling, a.upscaling))

----------------------------------------------------------------------------
(* draw.planet_transit *)

\* intensity - planet on one cell, then updated_intensity[... < 0] = 0.0
Occult(cell, planet) ==
    LET diff == IF cell.k = "fin"
                THEN (IF IsFin(planet)
                      THEN Ratio(cell.n * Scale - planet.v * cell.d,
                                 cell.d * Scale)
                      ELSE IF IsNaN(planet) THEN RNaN
                      ELSE RInf(-planet.v))
                ELSE IF cell.k = "nan" \/ IsNaN(planet) THEN RNaN
                ELSE IF IsInf(planet) /\ planet.v = cell.n THEN RNaN
                ELSE cell
    IN  IF (diff.k = "fin" /\ diff.n < 0) \/ (diff.k = "inf" /\ diff.n < 0)
        THEN Ratio(0, 1)
        ELSE IF diff.k = "fin" /\ planet.v = 0 THEN cell
        ELSE diff

\* the centre of the planet in pixels (x_p, y_p) and its radius, from the
\* radius fraction of the star, the grid lengths and the transit parameters
PlanetGeometry(radius, grid_length_x, grid_length_y, rp_rs, b, phase) ==
    LET star_radius   == Fin(radius * grid_length_x)
        planet_radius == FMul(star_radius, Fin(rp_rs))
        both          == FAdd(planet_radius, star_radius)
        y_p   == FAdd(FMul(Fin(b), star_radius),
                      Fin((grid_length_y \div 2) * Scale))
        q     == FDiv(FMul(Fin(b), star_radius), both)
        beta  == FSqrt(FSub(One, FMul(q, q)))
        alpha == FSub(Fin((grid_length_x \div 2) * Scale), FMul(both, beta))
        x_p   == FAdd(alpha,
                      FMul(FMul(FMul(FAdd(Fin(phase), Fin(Scale \div 2)),
                                     Fin(2 * Scale)), both), beta))
    IN  [x_p |-> x_p, y_p |-> y_p, planet_radius |-> planet_radius,
         star_radius |-> star_radius]

\* planet_transit from the drawing of the planet on: g is the geometry
TransitDraw(obj, n, g, planet_to_star_ratio, b, phase) ==
    LET planet == Disk(g.x_p.v, g.y_p.v, g.planet_radius.v, n, One)
        updated_intensity ==
            NdArray(n, Table([p \in Cells(n) |->
                Occult(obj.intensity.a[p], planet[p])]))
        o1 == SetAttr(obj, "intensity", updated_intensity)
        o2 == SetAttr(o1, "planet_px_coordinates",
                      [k |-> "tuple", x |-> g.x_p, y |-> g.y_p])
        o3 == SetAttr(o2, "planet_to_star_ratio", Float(planet_to_star_ratio))
        o4 == SetAttr(o3, "planet_impact_parameter", Float(b))
        o5 == SetAttr(o4, "phase", Float(phase))
    IN  [raised |-> "none", obj |-> o5]

\* planet_transit on the container obj: the container as the call leaves it,
\* and the exception raised, if any.  star_grid.radius is read first.
planet_transit(obj, planet_to_star_ratio, impact_parameter, phase) ==
    IF ~HasAttr(obj, "radius")
    THEN [raised |-> "AttributeError", obj |-> obj]
    ELSE TransitDraw(obj, obj.intensity.shape[1],
                     PlanetGeometry(obj.radius, obj.intensity.shape[1],
                                    obj.intensity.shape[2],
                                    planet_to_star_ratio, impact_parameter,
                                    phase),
                     planet_to_star_ratio, impact_parameter, phase)

----------------------------------------------------------------------------
(* The callers' inputs *)

\* largest requested grid size
MaxGrid == 3

GridSizes == 1 .. MaxGrid
\* radius, in units of the grid size
Radii == {Scale \div 2, (3 * Scale) \div 4}

\* coefficients in [0, 1)
CoefValues == {Fin((3 * Scale) \div 10), Fin((7 * Scale) \div 10)}
Coefficients(arity) ==
    IF arity = 1 THEN {Float(c.v) : c \in CoefValues}
    ELSE {Seq1([i \in 1 .. arity |-> IF i % 2 = 1 THEN c ELSE Fin(Scale \div 10)]) :
              c \in CoefValues}

\* a law name that star() does not know
UnknownLaw == Str("power-2")
\* a resampling method that star() does not know
UnknownMethod == Str("cubic")

\* the law names the callers pass
LawNames == {"linear", "quadratic", "square-root", "log", "exp", "sing",
             "claret"}

\* (limb_darkening_law, ld_coefficient, custom_limb_darkening)
LawInputs ==
    {<<None, None, None>>, <<UnknownLaw, None, None>>}
    \cup {<<Str("custom"), Seq1(<<c, c>>), f>> :
              c \in {Fin((3 * Scale) \div 10)}, f \in {None, Str("custom_ld")}}
    \cup UNION {{<<Str(name), c, None>> :
                    c \in Coefficients(Arity(IMPLEMENTED_LD_LAW[name]))} :
                name \in LawNames}

Supersamplings == {None, Num(2, 1), Num(3, 2)}
Upscalings == {None, Num(2, 1), Num(3, 2)}
Methods == {None, UnknownMethod} \cup {Str(m) : m \in RESAMPLING_ALIAS}

StarArgs ==
    {[grid_size |-> g, radius |-> r, limb_darkening_law |-> l[1],
      ld_coefficient |-> l[2], custom_limb_darkening |-> l[3],
      supersampling |-> s, upscaling |-> u, resample_method |-> m] :
        g \in GridSizes, r \in Radii, l \in LawInputs,
        s \in Supersamplings, u \in Upscalings, m \in Methods}

Ratios == {(15 * Scale) \div 100}
Impacts == {0, Scale \div 2, Scale}
Phases == {-(Scale \div 2), 0, Scale \div 2}

\* shapes of the grids passed to cylindrical_r, square or not
Shapes == GridSizes \X GridSizes
\* reference points, in pixels from the centre of the grid
References == {-1, 0, 1} \X {-1, 0, 1}

----------------------------------------------------------------------------
(* The program: one call of star(), then calls of planet_transit() on the *)
(* container it returned.  An exception ends the program.                 *)

VARIABLES
    pc,           \* "start", "star", "transit" or "raised"
    raised,       \* the exception that ended the program, or "none"
    args,         \* the arguments of the star() call
    effective,    \* star()'s effective_grid_size
    warned,       \* whether star() warned about the radius
    heap,         \* the objects made so far: reference -> object
    grid,         \* the reference star() returned (0: none)
    targs,        \* the arguments of the last planet_transit() call
    tret,         \* the reference planet_transit() returned (0: none)
    r_array,      \* star()'s r_array (<<>>: not computed)
    mu,           \* star()'s mu (<<>>: not computed)
    rcall         \* a direct call of utils.cylindrical_r: shape, reference
                  \* and, once it has returned, r_matrix

vars == <<pc, raised, args, effective, warned, heap, grid, targs, tret,
          r_array, mu, rcall>>

\* the caller has chosen the arguments of star(); the working grid holds at
\* least one pixel
Init ==
    /\ pc = "start"
    /\ raised = "none"
    /\ args \in {a \in StarArgs :
            EffectiveGridSize(a.grid_size, a.supersampling, a.upscaling) >= 1}
    /\ effective = 0
    /\ warned = FALSE
    /\ heap = <<>>
    /\ grid = 0
    /\ targs = None
    /\ tret = 0
    /\ r_array = <<>>
    /\ mu = <<>>
    /\ rcall = None

\* star(**args)
Star ==
    /\ pc = "start"
    /\ \E res \in {star(args)} :
           /\ effective' = res.effective_grid_size
           /\ warned' = (args.radius > Scale \div 2)
           /\ raised' = res.raised
           /\ r_array' = star_r_array(res.effective_grid_size)
           /\ mu' = star_mu(args, res.effective_grid_size)
           /\ IF res.raised = "none"
              THEN /\ heap' = Append(heap, res.value)
                   /\ grid' = Len(heap) + 1
                   /\ pc' = "star"
              ELSE /\ UNCHANGED <<heap, grid>>
                   /\ pc' = "raised"
    /\ UNCHANGED <<args, targs, tret, rcall>>

\* planet_transit(star_grid, rp_rs, b, phase) on the container of star()
PlanetTransit ==
    /\ pc \in {"star", "transit"}
    /\ \E rp_rs \in Ratios, b \in Impacts, phase \in Phases :
        \E res \in {planet_transit(heap[grid], rp_rs, b, phase)} :
            /\ targs' = [planet_to_star_ratio |-> rp_rs,
                         impact_parameter |-> b, phase |-> phase]
            /\ heap' = [heap EXCEPT ![grid] = res.obj]
            /\ raised' = res.raised
            /\ IF res.raised = "none"
               THEN tret' = grid /\ pc' = "transit"
               ELSE tret' = tret /\ pc' = "raised"
    /\ UNCHANGED <<args, effective, warned, grid, r_array, mu, rcall>>

Next == Star \/ PlanetTransit

Spec == Init /\ [][Next]_vars

----------------------------------------------------------------------------
(* A second program: one direct call of utils.cylindrical_r on a grid of  *)
(* any shape.                                                             *)

InitR ==
    /\ pc = "start"
    /\ raised = "none"
    /\ args = None
    /\ effective = 0
    /\ warned = FALSE
    /\ heap = <<>>
    /\ grid = 0
    /\ targs = None
    /\ tret = 0
    /\ r_array = <<>>
    /\ mu = <<>>
    /\ rcall \in {[shape |-> sh, reference |-> ref, r_matrix |-> None] :
                      sh \in Shapes, ref \in References}

\* r_matrix = cylindrical_r(np.zeros(shape), reference)
CylindricalR ==
    /\ pc = "start"
    /\ rcall' = [rcall EXCEPT !.r_matrix =
                     cylindrical_r(rcall.shape[1], rcall.shape[2],
                                   rcall.reference[1], rcall.reference[2])]
    /\ pc' = "cylindrical_r"
    /\ UNCHANGED <<raised, args, effective, warned, heap, grid, targs, tret,
                   r_array, mu>>

NextR == CylindricalR

SpecR == InitR /\ [][NextR]_vars

----------------------------------------------------------------------------
(* What the callers observe *)

\* the container star() returned
Returned_grid == heap[grid]

\* star() has returned, and no planet_transit call has been made since
StarReturned == pc = "star" /\ targs = None

\* a planet_transit call has been made
TransitCalled == targs # None

\* the law passed is None or one of the seven built-in laws
BuiltInLaw ==
    \/ args.limb_darkening_law = None
    \/ args.limb_darkening_law.s \in LawNames

\* the call takes the path with no resizing
NoResampling == args.supersampling = None /\ args.upscaling = None

\* the sum of the numerators of the cells in the set cells
RECURSIVE NumSum(_, _)
NumSum(a, cells) ==
    IF cells = {} THEN 0
    ELSE LET p == CHOOSE q \in cells : TRUE
         IN  a[p].n + NumSum(a, cells \ {p})

\* no cell of the intensity array is nan or infinite
AllFinite(intensity) ==
    \A p \in DOMAIN intensity.a : intensity.a[p].k = "fin"

\* the cells are finite and sum to 1.0 within 1e-6: they are quotients by
\* one divisor d, so their sum is the sum of the numerators over d
SumsToOne(intensity) ==
    /\ AllFinite(intensity)
    /\ \E p \in DOMAIN intensity.a :
           LET d == intensity.a[p].d
           IN  /\ \A q \in DOMAIN intensity.a : intensity.a[q].d = d
               /\ Abs(NumSum(intensity.a, DOMAIN intensity.a) - d)
                      <= d \div (10 ^ 6)

\* star() has been called and no planet_transit call has been made since
StarCalled == pc # "start" /\ targs = None

\* the law name passed is not None, not 'custom' and not a key of
\* IMPLEMENTED_LD_LAW
UnknownLawPassed ==
    /\ args.limb_darkening_law # None
    /\ args.limb_darkening_law # Str("custom")
    /\ args.limb_darkening_law.s \notin DOMAIN IMPLEMENTED_LD_LAW

\* the resample method passed is not None and not one of the six names
UnknownMethodPassed ==
    /\ args.resample_method # None
    /\ args.resample_method.s \notin
           {"nearest", "box", "bilinear", "hamming", "bicubic", "lanczos"}

\* the arguments let the limb-darkening step finish: no law, a known law, or
\* 'custom' with a callable
LawStepCompletes ==
    \/ args.limb_darkening_law = None
    \/ /\ args.limb_darkening_law = Str("custom")
       /\ args.custom_limb_darkening # None
    \/ /\ args.limb_darkening_law # Str("custom")
       /\ args.limb_darkening_law.s \in DOMAIN IMPLEMENTED_LD_LAW

----------------------------------------------------------------------------
(* C1 *)

\* C1: for every built-in limb-darkening law with coefficients in [0, 1) and
\* for no limb darkening, star() called without supersampling or upscaling
\* returns a grid whose cells are all finite (also where mu = 0) and sum to
\* 1.0 within 1e-6.
C1_DefaultRenderSumsToOne ==
    StarReturned /\ NoResampling /\ BuiltInLaw
        => SumsToOne(Returned_grid.intensity)

----------------------------------------------------------------------------
(* C2 *)

\* C2: whenever star() resizes (supersampling or upscaling given), the cells
\* returned are the resized cells over the sum of the resized grid, so they
\* are finite and sum to 1.0, whichever of the six methods resized.
C2_ResizedRenderSumsToOne ==
    StarReturned /\ ~NoResampling
        => /\ Returned_grid.resample_method.s \in RESAMPLING_ALIAS
           /\ SumsToOne(Returned_grid.intensity)

----------------------------------------------------------------------------
(* C3 *)

\* C3: for every StarGrid returned by star() and every planet_to_star_ratio,
\* impact_parameter and phase, planet_transit reads the radius fraction the
\* container was rendered with, completes without raising, and returns the
\* container it was given.
C3_TransitCompletes ==
    TransitCalled
        => /\ raised = "none"
           /\ tret = grid
           /\ HasAttr(Returned_grid, "radius")

----------------------------------------------------------------------------
(* C4 *)

\* C4: on a uniform star rendered with radius 0.5 and no resampling,
\* planet_transit with impact_parameter = 0 and phase = 0 completes and takes
\* away exactly the intensity of the cells under the planet disk: those cells
\* become 0 and every other cell keeps the intensity it had.
C4_TransitDepth ==
    (/\ TransitCalled
     /\ args.limb_darkening_law = None
     /\ NoResampling
     /\ args.radius = Scale \div 2
     /\ targs.impact_parameter = 0
     /\ targs.phase = 0)
        => /\ raised = "none"
           /\ LET n      == args.grid_size
                  before == star(args).value.intensity.a
                  g      == PlanetGeometry(args.radius, n, n,
                                           targs.planet_to_star_ratio, 0, 0)
                  planet == Disk(g.x_p.v, g.y_p.v, g.planet_radius.v, n, One)
              IN  \A p \in Cells(n) :
                      IF planet[p].v > 0
                      THEN Returned_grid.intensity.a[p].n = 0
                      ELSE Returned_grid.intensity.a[p] = before[p]

----------------------------------------------------------------------------
(* C5 *)

\* the square of the distance between the planet centre c and the centre of
\* an n x n grid, and the square of planet_radius + star_radius, in fixed
\* point
CentreDistance2(c, n) ==
    (c.x.v - (n \div 2) * Scale) * (c.x.v - (n \div 2) * Scale)
        + (c.y.v - (n \div 2) * Scale) * (c.y.v - (n \div 2) * Scale)
ContactDistance(n) ==
    Trunc(args.radius * n * (Scale + targs.planet_to_star_ratio), Scale)

\* C5: the planet centre (x_p, y_p) that planet_transit computes lies at
\* distance planet_radius + star_radius from the star centre when phase is
\* -0.5 (on the left of it) and when phase is +0.5 (on the right), and has
\* the x coordinate of the star centre when phase is 0.
C5_ContactGeometry ==
    TransitCalled
        => /\ raised = "none"
           /\ Returned_grid.planet_px_coordinates # None
           /\ LET n == args.grid_size
                  c == Returned_grid.planet_px_coordinates
                  d == ContactDistance(n)
              IN  /\ targs.phase = 0 => Abs(c.x.v - (n \div 2) * Scale) <= 2
                  /\ targs.phase # 0 =>
                         /\ Abs(CentreDistance2(c, n) - d * d) <= 8 * d
                         /\ (targs.phase < 0) = (c.x.v < (n \div 2) * Scale)

----------------------------------------------------------------------------
(* C6 *)

\* C6: right after star() returns the four transit fields of the StarGrid
\* (planet_px_coordinates, planet_radius_px, planet_impact_parameter,
\* planet_phase) are None; after a planet_transit call on it all four hold
\* the values of that call.
C6_TransitFields ==
    /\ StarReturned
           => /\ Returned_grid.planet_px_coordinates = None
              /\ Returned_grid.planet_radius_px = None
              /\ Returned_grid.planet_impact_parameter = None
              /\ Returned_grid.planet_phase = None
    /\ TransitCalled
           => /\ Returned_grid.planet_px_coordinates # None
              /\ Returned_grid.planet_radius_px # None
              /\ Returned_grid.planet_impact_parameter
                     = Float(targs.impact_parameter)
              /\ Returned_grid.planet_phase = Float(targs.phase)

----------------------------------------------------------------------------
(* C7 *)

\* C7, as amended: star() called with a limb_darkening_law that is not None,
\* not 'custom' and not a recognized name or alias raises
\* NotImplementedError and returns no StarGrid, whatever the other arguments
\* are.
C7_UnknownLawNotImplemented ==
    UnknownLawPassed /\ StarCalled
        => /\ pc = "raised"
           /\ raised = "NotImplementedError"
           /\ heap = <<>>

\* an unknown law has been refused, in a call that also asked for a resizing
\* with an unknown method
C7_UnknownLawRefused ==
    /\ UnknownLawPassed
    /\ UnknownMethodPassed
    /\ ~NoResampling
    /\ pc = "raised"
    /\ raised = "NotImplementedError"
    /\ heap = <<>>

\* C7, as stated: the call fails with the dedicated UnsupportedLawError and
\* returns no StarGrid.
C7_UnsupportedLawError ==
    UnknownLawPassed /\ StarCalled
        => /\ pc = "raised"
           /\ raised = "UnsupportedLawError"
           /\ heap = <<>>

----------------------------------------------------------------------------
(* C8 *)

\* C8, as amended: star() called with a resample_method that is not None and
\* not one of the six names, and with arguments that let the limb-darkening
\* step finish, raises NotImplementedError and returns no StarGrid when
\* supersampling or upscaling is given; when neither is given it returns a
\* StarGrid that carries the method as passed.
C8_UnknownMethodNotImplemented ==
    UnknownMethodPassed /\ StarCalled /\ LawStepCompletes
        => IF NoResampling
           THEN /\ pc = "star"
                /\ raised = "none"
                /\ Returned_grid.resample_method = args.resample_method
           ELSE /\ pc = "raised"
                /\ raised = "NotImplementedError"
                /\ heap = <<>>

\* an unknown method has been refused, in a call that resizes a star with a
\* built-in law
C8_UnknownMethodRefused ==
    /\ UnknownMethodPassed
    /\ ~NoResampling
    /\ args.limb_darkening_law # None
    /\ LawStepCompletes
    /\ pc = "raised"
    /\ raised = "NotImplementedError"

\* C8, as stated: every call with such a method (here: whose limb-darkening
\* step finishes), also one with neither supersampling nor upscaling, fails
\* with UnsupportedResampleMethodError and returns no StarGrid.
C8_UnsupportedResampleMethodError ==
    UnknownMethodPassed /\ StarCalled /\ LawStepCompletes
        => /\ pc = "raised"
           /\ raised = "UnsupportedResampleMethodError"
           /\ heap = <<>>

----------------------------------------------------------------------------
(* C9 *)

\* n is the integer nearest to p / d, the even one of the two when p / d is
\* half way between them (Python 3's round)
IsRound(n, p, d) ==
    /\ 2 * Abs(n * d - p) <= d
    /\ 2 * Abs(n * d - p) = d => n % 2 = 0

\* n is the largest integer not above p / d
IsFloor(n, p, d) == n * d <= p /\ p < (n + 1) * d

\* C9: the working grid size of star() is round(supersampling * grid_size)
\* when supersampling is given (whether or not upscaling is given too), else
\* floor(grid_size / upscaling) when upscaling is given, else grid_size; and
\* the intensity grid returned has shape grid_size x grid_size.
C9_WorkingGridSize ==
    StarCalled
        => /\ IF args.supersampling # None
              THEN IsRound(effective,
                           args.supersampling.n * args.grid_size,
                           args.supersampling.d)
              ELSE IF args.upscaling # None
              THEN IsFloor(effective,
                           args.grid_size * args.upscaling.d,
                           args.upscaling.n)
              ELSE effective = args.grid_size
           /\ pc = "star"
                  => /\ Returned_grid.intensity.shape
                            = <<args.grid_size, args.grid_size>>
                     /\ DOMAIN Returned_grid.intensity.a = Cells(args.grid_size)

\* star() has returned from a call given both factors, whose
\* supersampling * grid_size is half way between two integers
C9_BothFactorsTie ==
    /\ pc = "star"
    /\ args.supersampling # None
    /\ args.upscaling # None
    /\ 2 * Abs(effective * args.supersampling.d
                   - args.supersampling.n * args.grid_size)
           = args.supersampling.d
    /\ effective # args.grid_size
    /\ Returned_grid.intensity.shape = <<args.grid_size, args.grid_size>>

----------------------------------------------------------------------------
(* C10 *)

\* C10, as amended: every StarGrid returned by star() carries the radius,
\* law, coefficients, supersampling and upscaling exactly as passed; in
\* resample_method it carries, when star() resized, the name of the method
\* applied (one of the six names, 'box' when None was passed) and, when
\* star() did not resize, the value passed, None included.
C10_ContainerCarriesParameters ==
    StarReturned
        => /\ Returned_grid.radius_px = args.radius
           /\ Returned_grid.limb_darkening_law = args.limb_darkening_law
           /\ Returned_grid.ld_coefficients = args.ld_coefficient
           /\ Returned_grid.supersampling_factor = args.supersampling
           /\ Returned_grid.upscaling_factor = args.upscaling
           /\ IF NoResampling
              THEN Returned_grid.resample_method = args.resample_method
              ELSE /\ Returned_grid.resample_method.s \in
                          {"nearest", "box", "bilinear", "hamming", "bicubic",
                           "lanczos"}
                   /\ Returned_grid.resample_method =
                          IF args.resample_method = None THEN Str("box")
                          ELSE args.resample_method

\* star() has returned from a call given two different factors and no
\* method, with 'box' in the container
C10_DefaultMethodResolved ==
    /\ StarReturned
    /\ args.supersampling # None
    /\ args.upscaling # None
    /\ args.supersampling # args.upscaling
    /\ args.resample_method = None
    /\ Returned_grid.resample_method = Str("box")

\* C10, as stated: the resample_method of every StarGrid returned is one of
\* the six names, 'box' when None was passed, never None; the other
\* parameters are as passed.
C10_MethodNeverNone ==
    StarReturned
        => /\ Returned_grid.radius_px = args.radius
           /\ Returned_grid.limb_darkening_law = args.limb_darkening_law
           /\ Returned_grid.ld_coefficients = args.ld_coefficient
           /\ Returned_grid.supersampling_factor = args.supersampling
           /\ Returned_grid.upscaling_factor = args.upscaling
           /\ Returned_grid.resample_method # None
           /\ Returned_grid.resample_method.s \in
                  {"nearest", "box", "bilinear", "hamming", "bicubic",
                   "lanczos"}
           /\ args.resample_method = None
                  => Returned_grid.resample_method = Str("box")

----------------------------------------------------------------------------
(* C11 *)

\* C11: the mu that star() hands to the limb-darkening law is exactly 0
\* (not nan, not negative) at every cell of the working grid whose r_array
\* exceeds the stellar radius in pixels, and lies in [0, 1] at every other
\* cell.
C11_MuField ==
    StarCalled
        => /\ DOMAIN mu = Cells(effective)
           /\ \A p \in Cells(effective) :
                  /\ IsFin(mu[p])
                  /\ IF r_array[p].v > args.radius * effective
                     THEN mu[p] = Zero
                     ELSE 0 <= mu[p].v /\ mu[p].v <= Scale

\* star() has computed mu on a grid with cells beyond the stellar radius,
\* where mu is 0, and cells within it, where mu is positive
C11_MuInsideAndOutside ==
    /\ StarCalled
    /\ \E p \in Cells(effective) :
           r_array[p].v > args.radius * effective /\ mu[p] = Zero
    /\ \E p \in Cells(effective) :
           r_array[p].v < args.radius * effective /\ mu[p].v > 0

----------------------------------------------------------------------------
(* C12 *)

\* the value of the cell new is max(0, old - planet), old and new being
\* quotients and planet a double
IsOcculted(new, old, planet) ==
    /\ new.k = "fin" /\ old.k = "fin" /\ IsFin(planet)
    /\ new.n >= 0
    /\ IF old.n * Scale <= planet.v * old.d
       THEN new.n = 0
       ELSE new.n * old.d * Scale
                = (old.n * Scale - planet.v * old.d) * new.d

\* a step from a state in which planet_transit can be called is a call that
\* completes and occults every cell
TransitStepOccults ==
    pc \in {"star", "transit"}
        => /\ raised' = "none"
           /\ LET n      == heap[grid].intensity.shape[1]
                  g      == PlanetGeometry(args.radius, n, n,
                                           targs'.planet_to_star_ratio,
                                           targs'.impact_parameter,
                                           targs'.phase)
                  planet == Disk(g.x_p.v, g.y_p.v, g.planet_radius.v, n, One)
              IN  \A p \in Cells(n) :
                      IsOcculted(heap'[grid].intensity.a[p],
                                 heap[grid].intensity.a[p], planet[p])

\* C12: every planet_transit call on the container completes and leaves
\* each cell of intensity equal to max(0, the cell just before the call
\* minus the planet disk of the call): occultations accumulate, every cell
\* stays >= 0 and no cell increases.
C12_OccultationsAccumulate == [][TransitStepOccults]_vars

\* C13: for every working grid size, even or odd, the field of radial
\* distances that star() takes from cylindrical_r is 0 exactly at the cell
\* (n // 2, n // 2) on which the disk is centred, and the coordinates of
\* adjacent cells along an axis differ by exactly one pixel.
C13_FieldCentredOnDisk ==
    StarCalled
        => /\ r_array[<<effective \div 2, effective \div 2>>] = Zero
           /\ \A i \in 0 .. effective - 2 :
                  Linspace(effective \div 2, effective, i + 1)
                      - Linspace(effective \div 2, effective, i) = Scale

\* cylindrical_r has returned
CylindricalRCalled == pc = "cylindrical_r"

\* C14: for every grid shape (nx, ny), square or not, cylindrical_r returns
\* a field of that same shape (nx, ny) whose entry (i, j) is the Euclidean
\* distance from the reference point to the cell of coordinate i along x
\* and j along y, each axis centred on its own middle (nx // 2, ny // 2).
C14_FieldHasGridShape ==
    CylindricalRCalled
        => LET nx == rcall.shape[1]
               ny == rcall.shape[2]
           IN  /\ DOMAIN rcall.r_matrix = (0 .. nx - 1) \X (0 .. ny - 1)
               /\ \A p \in (0 .. nx - 1) \X (0 .. ny - 1) :
                      LET dx == Fin(Linspace(nx \div 2, nx, p[1])
                                        - rcall.reference[1] * Scale)
                          dy == Fin(Linspace(ny \div 2, ny, p[2])
                                        - rcall.reference[2] * Scale)
                      IN  rcall.r_matrix[p]
                              = FSqrt(FAdd(FMul(dx, dx), FMul(dy, dy)))

====
